---- MODULE Spec2Model ----
(***************************************************************************)
(* The authentication session store of the UPSC tracker (AuthProvider) and *)
(* its route gate (ProtectedRoute).                                        *)
(*                                                                         *)
(* The repository holds three variants of the store:                       *)
(*   "E"  error/retry variant      src/src/contexts/AuthContext.tsx 1-351  *)
(*   "K"  cached variant           src/src/contexts/AuthContext.tsx 352-675*)
(*   "I"  initialized-flag variant src/unnamed/part_003                    *)
(*                                                                         *)
(* One step of the model is one run of JavaScript between two suspension   *)
(* points at which the event loop may run something else: a handler from   *)
(* its call to its first backend request, or the continuation of an await  *)
(* from the backend's answer to the next request (or to the end).  State   *)
(* that a closure captured when it was created (mounted, loading,          *)
(* initialized, profileCache) is kept apart from the React state itself.   *)
(***************************************************************************)
EXTENDS Naturals, FiniteSets, Bags, TLC

VARIABLES
    variant,       \* which AuthProvider is mounted: "E", "K" or "I"
    env,           \* import.meta.env: "ok", "missing" or "invalid"
    db,            \* backend table profiles: user id -> role, or "none"
    user,          \* useState user (a user id, or Null)
    profile,       \* useState profile (a row, or NoProfile)
    session,       \* useState session (the id of the session's user, or Null)
    loading,       \* useState loading
    error,         \* useState error (variant E)
    retryCount,    \* useState retryCount (variant E)
    initialized,   \* useState initialized (variants K and I)
    profileCache,  \* useState profileCache (variant K): user id -> row, or NoProfile
    mounted,       \* `mounted` of the current run of the effect
    unmounted,     \* the provider has been torn down
    subscribed,    \* the current run's auth subscription is active
    subscriptions, \* how many subscriptions onAuthStateChange holds active
    timeoutId,     \* the 10 s timer of the current run: "none", "armed", "fired"
    loadingSeen,   \* `loading` as the current run's closures captured it
    init,          \* initializeAuth of the current run: [pc, uid]
    fetches,       \* bag of the profile requests awaited by the current run's handlers
    stale,         \* bag of the requests awaited by earlier runs (their `mounted` is false)
    call,          \* the ActionAPI call in flight: [op, pc, uid, role, cacheSeen]
    initialSession,\* the subscription has been sent its INITIAL_SESSION event
    returned       \* how the last ActionAPI call ended: [op, value, uid]

vars == <<variant, env, db, user, profile, session, loading, error, retryCount,
          initialized, profileCache, mounted, unmounted, subscribed, subscriptions,
          timeoutId, loadingSeen, init, fetches, stale, call, initialSession, returned>>

----------------------------------------------------------------------------
(* Bounds of the model *)

MaxRetry == 1
MaxInFlight == 3

----------------------------------------------------------------------------
(* Values *)

Null == "null"
Users == {"A", "B"}
Roles == {"admin", "student"}

NoProfile == [id |-> Null, role |-> Null]
Row(u, r) == [id |-> u, role |-> r]

(* The strings setError is called with (<message> stands for the message  *)
(* of the error that getSession returned).                                 *)
ErrConfigMissing ==
    "Configuration Error: Supabase environment variables are missing. Please check your deployment configuration."
ErrConfigInvalid ==
    "Configuration Error: Supabase environment variables are invalid. Please check your deployment configuration."
ErrTimeout ==
    "Connection Timeout: Unable to connect to authentication service. Please try again."
ErrNetworkAuth ==
    "Network Error: Unable to connect to authentication service. Please check your internet connection and try again."
ErrAuth == "Authentication Error: <message>"
ErrAuthUnexpected == "Authentication Error: An unexpected error occurred. Please try again."
ErrNetworkDb ==
    "Network Error: Unable to connect to the database. Please check your internet connection and try again."
ErrNetworkProfile == "Network Error: Unable to fetch user profile. Please try again."

NoCache == [u \in Users |-> NoProfile]
IdleInit == [pc |-> "idle", uid |-> Null]
DoneInit == [pc |-> "done", uid |-> Null]
IdleCall == [op |-> "none", pc |-> "idle", uid |-> Null, role |-> Null, cacheSeen |-> NoCache]
Call(op, pc, u, r, c) == [op |-> op, pc |-> pc, uid |-> u, role |-> r, cacheSeen |-> c]
Returned(op, v) == [op |-> op, value |-> v, uid |-> Null]
SignedIn(u) == [op |-> "signIn", value |-> "ok", uid |-> u]

----------------------------------------------------------------------------
(* The backend collaborator: what each request can answer.  A request that *)
(* is in flight may also stay unanswered for ever.                         *)

GetSessionOutcomes ==
    {"session", "no_session", "err_network", "err_other", "throw_network", "throw_other"}
SelectOutcomes(u) ==
    (IF db[u] # "none" THEN {"found"} ELSE {"not_found"})
        \cup {"err_network", "err_other", "throw"}
SignInOutcomes ==
    {"ok", "no_user", "err_network", "err_other", "throw_network", "throw_other"}
SignUpOutcomes ==
    {"ok", "no_user", "err_network", "err_other", "throw_network", "throw_other"}
InsertOutcomes(u) ==
    (IF db[u] = "none" THEN {"ok"} ELSE {"error"})
        \cup {"error", "throw_network", "throw_other"}
SignOutOutcomes == {"ok", "error", "throw"}

(* What signUp returns as error when the insert has failed: profileError,  *)
(* or what the insert threw.                                               *)
InsertError(o) == IF o = "error" THEN "profileError" ELSE "error"

(* error.message.includes('Failed to fetch') || error.message.includes('network') *)
(* A classification that looks at returned errors only, not at thrown ones. *)
IsNetworkMessage_returnedOnly(o) == o = "err_network"

IsNetworkMessage(o) == o \in {"err_network", "throw_network"}

(* The requests in flight for the closures of the effect.  A continuation  *)
(* reads the `mounted` of the run that created it: `fetches` and `init`    *)
(* belong to the current run, and the cleanup of a run moves what it       *)
(* awaits to `stale`.  KeepsUid: whether what a continuation does once its *)
(* `mounted` is false still depends on the user id (variant K writes the   *)
(* cache under it).                                                        *)
Fetch(u) == [kind |-> "profile", uid |-> u]
Pending(k, u) == [kind |-> k, uid |-> u]
AddFetch(u) == fetches (+) SetToBag({Fetch(u)})
DropFetch(f) == fetches (-) SetToBag({f})
KeepsUid == variant = "K"
StaleOf(p) == IF KeepsUid THEN p ELSE Pending(p.kind, Null)
RECURSIVE AddAll(_, _, _)
AddAll(b, S, from) ==
    IF S = {} THEN b
    ELSE LET p == CHOOSE x \in S : TRUE IN
         AddAll(b (+) [x \in {StaleOf(p)} |-> from[p]], S \ {p}, from)
InitPending ==
    CASE init.pc = "getSession"   -> SetToBag({Pending("getSession", Null)})
      [] init.pc = "fetchProfile" -> SetToBag({StaleOf(Pending("profile", init.uid))})
      [] OTHER                    -> EmptyBag
Superseded == AddAll(stale (+) InitPending, BagToSet(fetches), fetches)
(* What a request of an earlier run can answer (without the user id, an    *)
(* answer that is no failure stands for found and not found alike).        *)
StaleOutcomes(p) ==
    CASE p.kind # "profile" -> {"answer"}
      [] p.uid = Null       -> {"answer", "err_network", "err_other", "throw"}
      [] OTHER              -> SelectOutcomes(p.uid)

(* The model holds at most MaxInFlight unanswered requests at a time (a    *)
(* pending signIn of variant K counts twice: its answer starts two profile *)
(* requests).                                                              *)
InFlight ==
    BagCardinality(fetches) + BagCardinality(stale)
        + (IF init.pc \in {"getSession", "fetchProfile"} THEN 1 ELSE 0)
        + (IF call.pc = "idle" THEN 0
           ELSE IF variant = "K" /\ call.pc = "signInWithPassword" THEN 2 ELSE 1)

Started == init.pc # "idle"

----------------------------------------------------------------------------
(* Variant E: error/retry (AuthContext.tsx lines 1-351) *)

(* A check that lets every configuration pass. *)
checkEnvironmentVariables_skipped == TRUE

checkEnvironmentVariables == env = "ok"

ConfigError == IF env = "missing" THEN ErrConfigMissing ELSE ErrConfigInvalid

(* fetchUserProfile: what it returns, and the error it leaves in `error`   *)
(* (fetchUserProfileError_E_always: a variant that sets the error for      *)
(* every answer that is an error).                                         *)
fetchUserProfile_E(u, o) == IF o = "found" THEN Row(u, db[u]) ELSE NoProfile
fetchUserProfileError_E_always(o) ==
    CASE o = "found" -> error
      [] o = "throw" -> ErrNetworkProfile
      [] OTHER       -> ErrNetworkDb
fetchUserProfileError_E(o) ==
    CASE o = "err_network" -> ErrNetworkDb
      [] o = "throw"       -> ErrNetworkProfile
      [] OTHER             -> error

(* The timer's callback tests the `loading` of the render that created it. *)
timeoutGuard == mounted /\ loadingSeen

(* The body of the effect: subscribe, then initializeAuth up to its first  *)
(* await.                                                                  *)
RunEffect_E ==
    /\ mounted' = TRUE
    /\ subscribed' = TRUE
    /\ loadingSeen' = loading
    /\ IF checkEnvironmentVariables
         THEN /\ error' = Null
              /\ loading' = loading
              /\ timeoutId' = "armed"
              /\ init' = [pc |-> "getSession", uid |-> Null]
         ELSE /\ error' = ConfigError
              /\ loading' = FALSE
              /\ timeoutId' = "none"
              /\ init' = DoneInit

useEffect_E ==
    /\ variant = "E" /\ ~Started /\ ~unmounted
    /\ RunEffect_E
    /\ subscriptions' = subscriptions + 1
    /\ UNCHANGED <<variant, initialSession, env, db, user, profile, session, retryCount, initialized,
                   profileCache, unmounted, fetches, stale, call, returned>>

(* A retry whose new run subscribes while the subscription of the run     *)
(* before is left active.                                                  *)
retry_E_keepsSubscription ==
    /\ variant = "E" /\ Started /\ ~unmounted
    /\ retryCount < MaxRetry
    /\ InFlight < MaxInFlight
    /\ retryCount' = retryCount + 1
    /\ stale' = Superseded
    /\ fetches' = EmptyBag
    /\ RunEffect_E
    /\ subscriptions' = subscriptions + 1
    /\ UNCHANGED <<variant, initialSession, env, db, user, profile, session, initialized,
                   profileCache, unmounted, call, returned>>

(* retry, the re-render it causes, the cleanup of the previous run of the  *)
(* effect and its next run.                                                *)
retry_E ==
    /\ variant = "E" /\ Started /\ ~unmounted
    /\ retryCount < MaxRetry
    /\ InFlight < MaxInFlight
    /\ retryCount' = retryCount + 1
    /\ stale' = Superseded
    /\ fetches' = EmptyBag
    /\ RunEffect_E
    /\ subscriptions' = (subscriptions - 1) + 1
    /\ UNCHANGED <<variant, initialSession, env, db, user, profile, session, initialized,
                   profileCache, unmounted, call, returned>>

(* The cleanup of the effect when the provider is unmounted. *)
cleanup_E ==
    /\ variant = "E" /\ Started /\ ~unmounted
    /\ unmounted' = TRUE
    /\ mounted' = FALSE
    /\ subscribed' = FALSE
    /\ subscriptions' = subscriptions - 1
    /\ timeoutId' = IF timeoutId = "armed" THEN "none" ELSE timeoutId
    /\ stale' = Superseded
    /\ fetches' = EmptyBag
    /\ init' = DoneInit
    /\ UNCHANGED <<variant, initialSession, env, db, user, profile, session, loading, error, retryCount,
                   initialized, profileCache, loadingSeen, call, returned>>

(* The setTimeout callback of initializeAuth. *)
timeout_E ==
    /\ variant = "E"
    /\ timeoutId = "armed"
    /\ timeoutId' = "fired"
    /\ IF timeoutGuard
         THEN error' = ErrTimeout /\ loading' = FALSE
         ELSE UNCHANGED <<error, loading>>
    /\ UNCHANGED <<variant, initialSession, env, db, user, profile, session, retryCount, initialized,
                   profileCache, mounted, unmounted, subscribed, subscriptions, loadingSeen, init,
                   fetches, stale, call, returned>>

(* An initializeAuth that leaves the timer running after getSession. *)
getSession_E_keepsTimer(o, s) ==
    /\ variant = "E"
    /\ init.pc = "getSession"
    /\ CASE o = "session" ->
              /\ session' = s /\ user' = s
              /\ init' = [pc |-> "fetchProfile", uid |-> s]
              /\ UNCHANGED <<profile, loading, error, timeoutId>>
         [] o = "no_session" ->
              /\ user' = Null /\ profile' = NoProfile /\ session' = Null
              /\ loading' = FALSE
              /\ init' = DoneInit
              /\ timeoutId' = IF timeoutId = "armed" THEN "none" ELSE timeoutId
              /\ UNCHANGED error
         [] OTHER ->
              /\ error' = CASE IsNetworkMessage(o) -> ErrNetworkAuth
                            [] o = "err_other"    -> ErrAuth
                            [] OTHER              -> ErrAuthUnexpected
              /\ user' = Null /\ profile' = NoProfile /\ session' = Null
              /\ loading' = FALSE
              /\ init' = DoneInit
              /\ timeoutId' = IF timeoutId = "armed" THEN "none" ELSE timeoutId
    /\ UNCHANGED <<variant, initialSession, env, db, retryCount, initialized, profileCache, mounted,
                   unmounted, subscribed, subscriptions, loadingSeen, fetches, stale, call, returned>>

(* initializeAuth of the current run from the answer of getSession to the  *)
(* profile request, or to its end.                                         *)
getSession_E(o, s) ==
    /\ variant = "E"
    /\ init.pc = "getSession"
    /\ timeoutId' = IF timeoutId = "armed" THEN "none" ELSE timeoutId
    /\ CASE o = "session" ->
              /\ session' = s /\ user' = s
              /\ init' = [pc |-> "fetchProfile", uid |-> s]
              /\ UNCHANGED <<profile, loading, error>>
         [] o = "no_session" ->
              /\ user' = Null /\ profile' = NoProfile /\ session' = Null
              /\ loading' = FALSE
              /\ init' = DoneInit
              /\ UNCHANGED error
         [] OTHER ->
              /\ error' = CASE IsNetworkMessage(o) -> ErrNetworkAuth
                            [] o = "err_other"    -> ErrAuth
                            [] OTHER              -> ErrAuthUnexpected
              /\ user' = Null /\ profile' = NoProfile /\ session' = Null
              /\ loading' = FALSE
              /\ init' = DoneInit
    /\ UNCHANGED <<variant, initialSession, env, db, retryCount, initialized, profileCache, mounted,
                   unmounted, subscribed, subscriptions, loadingSeen, fetches, stale, call, returned>>

(* initializeAuth of the current run from the answer of its profile        *)
(* request to its end.                                                     *)
initProfile_E(o) ==
    /\ variant = "E"
    /\ init.pc = "fetchProfile"
    /\ error' = fetchUserProfileError_E(o)
    /\ profile' = fetchUserProfile_E(init.uid, o)
    /\ loading' = FALSE
    /\ init' = DoneInit
    /\ UNCHANGED <<variant, initialSession, env, db, user, session, retryCount, initialized, profileCache,
                   mounted, unmounted, subscribed, subscriptions, timeoutId, loadingSeen, fetches, stale,
                   call, returned>>

(* A continuation of an earlier run, whose `mounted` is false: after       *)
(* getSession it returns at once; after a profile request fetchUserProfile *)
(* has run, and its result is dropped.                                     *)
staleAnswer_E(p, o) ==
    /\ variant = "E"
    /\ BagIn(p, stale)
    /\ stale' = stale (-) SetToBag({p})
    /\ error' = IF p.kind = "profile" THEN fetchUserProfileError_E(o) ELSE error
    /\ UNCHANGED <<variant, initialSession, env, db, user, profile, session, loading, retryCount,
                   initialized, profileCache, mounted, unmounted, subscribed, subscriptions, timeoutId,
                   loadingSeen, init, fetches, call, returned>>

(* A handler that stores the session and leaves user and error to the end *)
(* of its profile request.                                                 *)
Handle_E_sessionOnly(s) ==
    IF ~(subscribed /\ mounted)
      THEN UNCHANGED <<session, user, error, profile, fetches>>
      ELSE /\ session' = s
           /\ UNCHANGED <<user, error>>
           /\ IF s # Null
                THEN /\ fetches' = AddFetch(s)
                     /\ UNCHANGED profile
                ELSE /\ profile' = NoProfile
                     /\ UNCHANGED fetches

(* handleAuthStateChange up to its first await, run by the live            *)
(* subscription for a notification carrying session s (Null: no session).  *)
Handle_E(s) ==
    IF ~(subscribed /\ mounted)
      THEN UNCHANGED <<session, user, error, profile, fetches>>
      ELSE /\ session' = s
           /\ user' = s
           /\ error' = Null
           /\ IF s # Null
                THEN /\ fetches' = AddFetch(s)
                     /\ UNCHANGED profile
                ELSE /\ profile' = NoProfile
                     /\ UNCHANGED fetches

(* A session change made elsewhere (another tab, a token refresh, an       *)
(* expiry) is notified to the subscription.                                *)
handleAuthStateChange_E(s) ==
    /\ variant = "E" /\ Started
    /\ subscribed
    /\ (s # Null => InFlight < MaxInFlight)
    /\ Handle_E(s)
    /\ UNCHANGED <<variant, initialSession, env, db, loading, retryCount, initialized, profileCache,
                   mounted, unmounted, subscribed, subscriptions, timeoutId, loadingSeen, init,
                   stale, call, returned>>

(* handleAuthStateChange from the answer of its profile request to its end. *)
handlerProfile_E(f, o) ==
    /\ variant = "E"
    /\ BagIn(f, fetches)
    /\ fetches' = DropFetch(f)
    /\ error' = fetchUserProfileError_E(o)
    /\ profile' = fetchUserProfile_E(f.uid, o)
    /\ UNCHANGED <<variant, initialSession, env, db, user, session, loading, retryCount, initialized,
                   profileCache, mounted, unmounted, subscribed, subscriptions, timeoutId, loadingSeen,
                   init, stale, call, returned>>

(* The UI makes one ActionAPI call at a time. *)
CanCall == Started /\ ~unmounted /\ call.pc = "idle" /\ InFlight < MaxInFlight

(* A signIn that clears the error and calls the backend without checking   *)
(* the configuration.                                                      *)
signIn_E_unchecked(u) ==
    /\ variant = "E" /\ CanCall
    /\ error' = Null
    /\ call' = Call("signIn", "signInWithPassword", u, Null, NoCache)
    /\ returned' = Returned("none", "none")
    /\ UNCHANGED <<variant, initialSession, env, db, user, profile, session, loading,
                   retryCount, initialized, profileCache, mounted, unmounted, subscribed, subscriptions,
                   timeoutId, loadingSeen, init, fetches, stale>>

(* signIn up to its await of signInWithPassword, with the e-mail of user u. *)
signIn_E(u) ==
    /\ variant = "E" /\ CanCall
    /\ IF checkEnvironmentVariables
         THEN /\ error' = Null
              /\ call' = Call("signIn", "signInWithPassword", u, Null, NoCache)
              /\ returned' = Returned("none", "none")
              /\ UNCHANGED loading
         ELSE /\ error' = ConfigError
              /\ loading' = FALSE
              /\ returned' = Returned("signIn", "error")
              /\ UNCHANGED call
    /\ UNCHANGED <<variant, initialSession, env, db, user, profile, session, retryCount, initialized,
                   profileCache, mounted, unmounted, subscribed, subscriptions, timeoutId, loadingSeen,
                   init, fetches, stale>>

(* A signIn without its catch block: what signInWithPassword throws leaves *)
(* signIn as an exception.                                                 *)
signInWithPassword_E_uncaught(o) ==
    /\ variant = "E"
    /\ call.op = "signIn" /\ call.pc = "signInWithPassword"
    /\ call' = IdleCall
    /\ IF o = "ok"
         THEN /\ Handle_E(call.uid)
              /\ returned' = SignedIn(call.uid)
         ELSE /\ error' = IF o = "err_network" THEN ErrNetworkAuth ELSE error
              /\ returned' = Returned("signIn", IF o \in {"throw_network", "throw_other"}
                                                 THEN "thrown" ELSE "error")
              /\ UNCHANGED <<session, user, profile, fetches>>
    /\ UNCHANGED <<variant, initialSession, env, db, loading, retryCount, initialized,
                   profileCache, mounted, unmounted, subscribed, subscriptions, timeoutId, loadingSeen,
                   init, stale>>

(* signIn from the answer of signInWithPassword to its return.  When the   *)
(* credentials are accepted the backend has notified the subscription of   *)
(* the new session before it answers.                                      *)
signInWithPassword_E(o) ==
    /\ variant = "E"
    /\ call.op = "signIn" /\ call.pc = "signInWithPassword"
    /\ call' = IdleCall
    /\ IF o = "ok"
         THEN /\ Handle_E(call.uid)
              /\ returned' = SignedIn(call.uid)
         ELSE /\ error' = IF IsNetworkMessage(o) THEN ErrNetworkAuth ELSE error
              /\ returned' = Returned("signIn", "error")
              /\ UNCHANGED <<session, user, profile, fetches>>
    /\ UNCHANGED <<variant, initialSession, env, db, loading, retryCount, initialized, profileCache,
                   mounted, unmounted, subscribed, subscriptions, timeoutId, loadingSeen, init, stale>>

(* signUp up to its await of auth.signUp, for user u with role r. *)
signUp_E(u, r) ==
    /\ variant = "E" /\ CanCall
    /\ IF checkEnvironmentVariables
         THEN /\ error' = Null
              /\ call' = Call("signUp", "signUp", u, r, NoCache)
              /\ returned' = Returned("none", "none")
              /\ UNCHANGED loading
         ELSE /\ error' = ConfigError
              /\ loading' = FALSE
              /\ returned' = Returned("signUp", "error")
              /\ UNCHANGED call
    /\ UNCHANGED <<variant, initialSession, env, db, user, profile, session, retryCount, initialized,
                   profileCache, mounted, unmounted, subscribed, subscriptions, timeoutId, loadingSeen,
                   init, fetches, stale>>

(* A signUp that sets the global error for every failure of auth.signUp. *)
authSignUp_E_globalError(o) ==
    /\ variant = "E"
    /\ call.op = "signUp" /\ call.pc = "signUp"
    /\ CASE o = "ok" ->
              /\ call' = [call EXCEPT !.pc = "insert"]
              /\ UNCHANGED <<returned, error>>
         [] o = "no_user" ->
              /\ call' = IdleCall
              /\ returned' = Returned("signUp", "ok")
              /\ UNCHANGED error
         [] OTHER ->
              /\ call' = IdleCall
              /\ returned' = Returned("signUp", "error")
              /\ error' = IF IsNetworkMessage(o) THEN ErrNetworkAuth ELSE ErrAuth
    /\ UNCHANGED <<variant, initialSession, env, db, user, profile, session, loading,
                   retryCount, initialized, profileCache, mounted, unmounted, subscribed, subscriptions,
                   timeoutId, loadingSeen, init, fetches, stale>>

(* signUp from the answer of auth.signUp to the profile insert, or to its return. *)
authSignUp_E(o) ==
    /\ variant = "E"
    /\ call.op = "signUp" /\ call.pc = "signUp"
    /\ CASE o = "ok" ->
              /\ call' = [call EXCEPT !.pc = "insert"]
              /\ UNCHANGED <<returned, error>>
         [] o = "no_user" ->
              /\ call' = IdleCall
              /\ returned' = Returned("signUp", "ok")
              /\ UNCHANGED error
         [] OTHER ->
              /\ call' = IdleCall
              /\ returned' = Returned("signUp", "error")
              /\ error' = IF IsNetworkMessage(o) THEN ErrNetworkAuth ELSE error
    /\ UNCHANGED <<variant, initialSession, env, db, user, profile, session, loading, retryCount,
                   initialized, profileCache, mounted, unmounted, subscribed, subscriptions, timeoutId,
                   loadingSeen, init, fetches, stale>>

(* signUp from the answer of the profile insert to its return. *)
insertProfile_E(o) ==
    /\ variant = "E"
    /\ call.op = "signUp" /\ call.pc = "insert"
    /\ call' = IdleCall
    /\ IF o = "ok"
         THEN /\ db' = [db EXCEPT ![call.uid] = call.role]
              /\ returned' = Returned("signUp", "ok")
              /\ UNCHANGED error
         ELSE /\ returned' = Returned("signUp", InsertError(o))
              /\ error' = IF IsNetworkMessage(o) THEN ErrNetworkAuth ELSE error
              /\ UNCHANGED db
    /\ UNCHANGED <<variant, initialSession, env, user, profile, session, loading, retryCount,
                   initialized, profileCache, mounted, unmounted, subscribed, subscriptions, timeoutId,
                   loadingSeen, init, fetches, stale>>

(* signOut up to its await of auth.signOut. *)
signOut_E ==
    /\ variant = "E" /\ CanCall
    /\ error' = Null
    /\ call' = Call("signOut", "signOut", Null, Null, NoCache)
    /\ returned' = Returned("none", "none")
    /\ UNCHANGED <<variant, initialSession, env, db, user, profile, session, loading, retryCount,
                   initialized, profileCache, mounted, unmounted, subscribed, subscriptions, timeoutId,
                   loadingSeen, init, fetches, stale>>

(* signOut from the answer of auth.signOut to its end.  When the backend   *)
(* has ended the session it has notified the subscription before it        *)
(* answers.                                                                *)
authSignOut_E(o) ==
    /\ variant = "E"
    /\ call.op = "signOut" /\ call.pc = "signOut"
    /\ call' = IdleCall
    /\ CASE o = "ok" ->
              /\ user' = Null /\ profile' = NoProfile /\ session' = Null
              /\ error' = IF subscribed /\ mounted THEN Null ELSE error
              /\ returned' = Returned("signOut", "returned")
         [] o = "error" ->
              /\ user' = Null /\ profile' = NoProfile /\ session' = Null
              /\ returned' = Returned("signOut", "returned")
              /\ UNCHANGED error
         [] OTHER ->
              /\ returned' = Returned("signOut", "caught")
              /\ UNCHANGED <<user, profile, session, error>>
    /\ UNCHANGED <<variant, initialSession, env, db, loading, retryCount, initialized, profileCache,
                   mounted, unmounted, subscribed, subscriptions, timeoutId, loadingSeen, init, fetches, stale>>

----------------------------------------------------------------------------
(* Variant K: cached (AuthContext.tsx lines 352-675) *)

(* The state that variant K does not have, and the state that variant I    *)
(* does not have.                                                          *)
NotInK == <<variant, initialSession, env, error, retryCount, timeoutId, loadingSeen>>
NotInI == <<variant, env, error, retryCount, timeoutId, loadingSeen, profileCache>>

(* profileCache as the closures of the effect captured it: the Map of the  *)
(* first render.  setProfileCache installs a new Map and leaves this one   *)
(* as it was, and the effect does not run again.                           *)
EffectCache == NoCache

CacheHit(c, u) == c[u] # NoProfile

(* fetchUserProfile after its request: what it returns, and the cache it   *)
(* leaves.                                                                 *)
(* A fetchUserProfile that keeps the profile of before when its lookup     *)
(* finds no row or fails.                                                  *)
fetchUserProfile_K_keeps(u, o) == IF o = "found" THEN Row(u, db[u]) ELSE profile

fetchUserProfile_K(u, o) == IF o = "found" THEN Row(u, db[u]) ELSE NoProfile
(* A fetchUserProfile that caches whatever its request answered. *)
setProfileCache_K_always(u, o) == [profileCache EXCEPT ![u] = Row(u, db[u])]

(* A fetchUserProfile that adds the row to the Map its closure captured     *)
(* instead of the latest one (setProfileCache(new Map(profileCache)...)).  *)
setProfileCache_K_closure(u, o) ==
    IF o = "found" THEN [EffectCache EXCEPT ![u] = Row(u, db[u])] ELSE profileCache

setProfileCache_K(u, o) ==
    IF o = "found" THEN [profileCache EXCEPT ![u] = Row(u, db[u])] ELSE profileCache

useEffect_K ==
    /\ variant = "K" /\ ~Started /\ ~unmounted
    /\ mounted' = TRUE
    /\ subscribed' = TRUE
    /\ subscriptions' = subscriptions + 1
    /\ init' = [pc |-> "getSession", uid |-> Null]
    /\ UNCHANGED <<NotInK, db, user, profile, session, loading, initialized, profileCache,
                   unmounted, fetches, stale, call, returned>>

cleanup_K ==
    /\ variant = "K" /\ Started /\ ~unmounted
    /\ unmounted' = TRUE
    /\ mounted' = FALSE
    /\ subscribed' = FALSE
    /\ subscriptions' = subscriptions - 1
    /\ stale' = Superseded
    /\ fetches' = EmptyBag
    /\ init' = DoneInit
    /\ UNCHANGED <<NotInK, db, user, profile, session, loading, initialized, profileCache,
                   call, returned>>

(* initializeAuth from the answer of getSession to the profile request, or *)
(* to its end.                                                             *)
getSession_K(o, s) ==
    /\ variant = "K"
    /\ init.pc = "getSession"
    /\ IF o = "session"
         THEN /\ session' = s /\ user' = s
              /\ IF CacheHit(EffectCache, s)
                   THEN /\ profile' = EffectCache[s]
                        /\ loading' = FALSE /\ initialized' = TRUE
                        /\ init' = DoneInit
                   ELSE /\ init' = [pc |-> "fetchProfile", uid |-> s]
                        /\ UNCHANGED <<profile, loading, initialized>>
         ELSE /\ user' = Null /\ profile' = NoProfile /\ session' = Null
              /\ loading' = FALSE /\ initialized' = TRUE
              /\ init' = DoneInit
    /\ UNCHANGED <<NotInK, db, profileCache, mounted, unmounted, subscribed, subscriptions, fetches,
                   stale, call, returned>>

(* initializeAuth from the answer of its profile request to its end. *)
initProfile_K(o) ==
    /\ variant = "K"
    /\ init.pc = "fetchProfile"
    /\ profileCache' = setProfileCache_K(init.uid, o)
    /\ profile' = fetchUserProfile_K(init.uid, o)
    /\ loading' = FALSE /\ initialized' = TRUE
    /\ init' = DoneInit
    /\ UNCHANGED <<NotInK, db, user, session, mounted, unmounted, subscribed, subscriptions, fetches,
                   stale, call, returned>>

(* A continuation whose `mounted` is false: after getSession it returns at *)
(* once; after a profile request fetchUserProfile has filled the cache and *)
(* its result is dropped.                                                  *)
staleAnswer_K(p, o) ==
    /\ variant = "K"
    /\ BagIn(p, stale)
    /\ stale' = stale (-) SetToBag({p})
    /\ profileCache' = IF p.kind = "profile" THEN setProfileCache_K(p.uid, o) ELSE profileCache
    /\ UNCHANGED <<NotInK, db, user, profile, session, loading, initialized, mounted,
                   unmounted, subscribed, subscriptions, init, fetches, call, returned>>

(* handleAuthStateChange up to its first await. *)
Handle_K(s) ==
    IF ~(subscribed /\ mounted)
      THEN UNCHANGED <<session, user, profile, fetches>>
      ELSE /\ session' = s
           /\ user' = s
           /\ IF s = Null
                THEN profile' = NoProfile /\ UNCHANGED fetches
                ELSE IF CacheHit(EffectCache, s)
                       THEN profile' = EffectCache[s] /\ UNCHANGED fetches
                       ELSE fetches' = AddFetch(s) /\ UNCHANGED profile

handleAuthStateChange_K(s) ==
    /\ variant = "K" /\ Started
    /\ subscribed
    /\ (s # Null => InFlight < MaxInFlight)
    /\ Handle_K(s)
    /\ UNCHANGED <<NotInK, db, loading, initialized, profileCache, mounted, unmounted,
                   subscribed, subscriptions, init, stale, call, returned>>

(* handleAuthStateChange from the answer of its profile request to its end. *)
handlerProfile_K(f, o) ==
    /\ variant = "K"
    /\ BagIn(f, fetches)
    /\ fetches' = DropFetch(f)
    /\ profileCache' = setProfileCache_K(f.uid, o)
    /\ profile' = fetchUserProfile_K(f.uid, o)
    /\ UNCHANGED <<NotInK, db, user, session, loading, initialized, mounted, unmounted,
                   subscribed, subscriptions, init, stale, call, returned>>

(* signIn up to its await of signInWithPassword.  The call uses the signIn *)
(* of the latest render, whose fetchUserProfile sees the cache of that     *)
(* render.                                                                 *)
signIn_K(u) ==
    /\ variant = "K" /\ CanCall
    /\ call' = Call("signIn", "signInWithPassword", u, Null, profileCache)
    /\ returned' = Returned("none", "none")
    /\ UNCHANGED <<NotInK, db, user, profile, session, loading, initialized, profileCache,
                   mounted, unmounted, subscribed, subscriptions, init, fetches, stale>>

(* A signIn that stores data.user and leaves the session as it was. *)
signInWithPassword_K_userOnly(o) ==
    /\ variant = "K"
    /\ call.op = "signIn" /\ call.pc = "signInWithPassword"
    /\ IF o = "ok"
         THEN /\ user' = call.uid
              /\ fetches' = IF subscribed /\ mounted /\ ~CacheHit(EffectCache, call.uid)
                              THEN AddFetch(call.uid) ELSE fetches
              /\ IF CacheHit(call.cacheSeen, call.uid)
                   THEN /\ profile' = call.cacheSeen[call.uid]
                        /\ call' = IdleCall
                        /\ returned' = SignedIn(call.uid)
                   ELSE /\ call' = [call EXCEPT !.pc = "fetchProfile"]
                        /\ UNCHANGED <<profile, returned>>
         ELSE /\ call' = IdleCall
              /\ returned' = Returned("signIn", "error")
              /\ UNCHANGED <<user, profile, fetches>>
    /\ UNCHANGED <<NotInK, db, session, loading, initialized, profileCache, mounted,
                   unmounted, subscribed, subscriptions, init, stale>>

(* signIn from the answer of signInWithPassword to its own profile request *)
(* (or, on a cache hit, to its return).  When the credentials are accepted *)
(* the subscription has been notified before: its handler has set session  *)
(* and user and awaits a profile request of its own.                       *)
signInWithPassword_K(o) ==
    /\ variant = "K"
    /\ call.op = "signIn" /\ call.pc = "signInWithPassword"
    /\ IF o = "ok"
         THEN /\ session' = call.uid
              /\ user' = call.uid
              /\ fetches' = IF subscribed /\ mounted /\ ~CacheHit(EffectCache, call.uid)
                              THEN AddFetch(call.uid) ELSE fetches
              /\ IF CacheHit(call.cacheSeen, call.uid)
                   THEN /\ profile' = call.cacheSeen[call.uid]
                        /\ call' = IdleCall
                        /\ returned' = SignedIn(call.uid)
                   ELSE /\ call' = [call EXCEPT !.pc = "fetchProfile"]
                        /\ UNCHANGED <<profile, returned>>
         ELSE /\ call' = IdleCall
              /\ returned' = Returned("signIn", "error")
              /\ UNCHANGED <<session, user, profile, fetches>>
    /\ UNCHANGED <<NotInK, db, loading, initialized, profileCache, mounted, unmounted,
                   subscribed, subscriptions, init, stale>>

(* signIn from the answer of its profile request to its return. *)
signInProfile_K(o) ==
    /\ variant = "K"
    /\ call.op = "signIn" /\ call.pc = "fetchProfile"
    /\ profileCache' = setProfileCache_K(call.uid, o)
    /\ profile' = fetchUserProfile_K(call.uid, o)
    /\ call' = IdleCall
    /\ returned' = SignedIn(call.uid)
    /\ UNCHANGED <<NotInK, db, user, session, loading, initialized, mounted, unmounted,
                   subscribed, subscriptions, init, fetches, stale>>

signUp_K(u, r) ==
    /\ variant = "K" /\ CanCall
    /\ call' = Call("signUp", "signUp", u, r, NoCache)
    /\ returned' = Returned("none", "none")
    /\ UNCHANGED <<NotInK, db, user, profile, session, loading, initialized, profileCache,
                   mounted, unmounted, subscribed, subscriptions, init, fetches, stale>>

authSignUp_K(o) ==
    /\ variant = "K"
    /\ call.op = "signUp" /\ call.pc = "signUp"
    /\ CASE o = "ok" ->
              /\ call' = [call EXCEPT !.pc = "insert"]
              /\ UNCHANGED returned
         [] o = "no_user" ->
              /\ call' = IdleCall
              /\ returned' = Returned("signUp", "ok")
         [] OTHER ->
              /\ call' = IdleCall
              /\ returned' = Returned("signUp", "error")
    /\ UNCHANGED <<NotInK, db, user, profile, session, loading, initialized, profileCache,
                   mounted, unmounted, subscribed, subscriptions, init, fetches, stale>>

(* A signUp that puts the new row into the cache before it looks at the    *)
(* answer of the insert.                                                   *)
insertProfile_K_cachesFirst(o) ==
    /\ variant = "K"
    /\ call.op = "signUp" /\ call.pc = "insert"
    /\ call' = IdleCall
    /\ profileCache' = [profileCache EXCEPT ![call.uid] = Row(call.uid, call.role)]
    /\ IF o = "ok"
         THEN /\ db' = [db EXCEPT ![call.uid] = call.role]
              /\ returned' = Returned("signUp", "ok")
         ELSE /\ returned' = Returned("signUp", InsertError(o))
              /\ UNCHANGED db
    /\ UNCHANGED <<NotInK, user, profile, session, loading, initialized, mounted,
                   unmounted, subscribed, subscriptions, init, fetches, stale>>

(* signUp from the answer of the profile insert to its return; the new row *)
(* is put into the cache.                                                  *)
insertProfile_K(o) ==
    /\ variant = "K"
    /\ call.op = "signUp" /\ call.pc = "insert"
    /\ call' = IdleCall
    /\ IF o = "ok"
         THEN /\ db' = [db EXCEPT ![call.uid] = call.role]
              /\ profileCache' = [profileCache EXCEPT ![call.uid] = Row(call.uid, call.role)]
              /\ returned' = Returned("signUp", "ok")
         ELSE /\ returned' = Returned("signUp", InsertError(o))
              /\ UNCHANGED <<db, profileCache>>
    /\ UNCHANGED <<NotInK, user, profile, session, loading, initialized, mounted,
                   unmounted, subscribed, subscriptions, init, fetches, stale>>

signOut_K ==
    /\ variant = "K" /\ CanCall
    /\ call' = Call("signOut", "signOut", Null, Null, NoCache)
    /\ returned' = Returned("none", "none")
    /\ UNCHANGED <<NotInK, db, user, profile, session, loading, initialized, profileCache,
                   mounted, unmounted, subscribed, subscriptions, init, fetches, stale>>

(* signOut from the answer of auth.signOut to its end (with the answer     *)
(* "ok" the subscription has been notified before, which clears the same   *)
(* state).                                                                 *)
authSignOut_K(o) ==
    /\ variant = "K"
    /\ call.op = "signOut" /\ call.pc = "signOut"
    /\ call' = IdleCall
    /\ IF o \in {"ok", "error"}
         THEN /\ user' = Null /\ profile' = NoProfile /\ session' = Null
              /\ profileCache' = NoCache
              /\ returned' = Returned("signOut", "returned")
         ELSE /\ returned' = Returned("signOut", "caught")
              /\ UNCHANGED <<user, profile, session, profileCache>>
    /\ UNCHANGED <<NotInK, db, loading, initialized, mounted, unmounted, subscribed, subscriptions,
                   init, fetches, stale>>

isAdmin == profile.role = "admin"
isStudent == profile.role = "student"

----------------------------------------------------------------------------
(* Variant I: initialized flag (part_003) *)

Events == {"INITIAL_SESSION", "SIGNED_IN", "SIGNED_OUT", "TOKEN_REFRESHED"}

(* The session an event of each kind can carry. *)
Carries(e, s) ==
    CASE e = "SIGNED_OUT"      -> s = Null
      [] e = "INITIAL_SESSION" -> TRUE
      [] OTHER                 -> s # Null

(* `initialized` as handleAuthStateChange captured it: the value of the    *)
(* first render.  setInitialized causes a new render and the effect, which *)
(* has no dependencies, does not run again.                                *)
initializedSeen == FALSE

fetchUserProfile_I(u, o) == IF o = "found" THEN Row(u, db[u]) ELSE NoProfile

useEffect_I ==
    /\ variant = "I" /\ ~Started /\ ~unmounted
    /\ mounted' = TRUE
    /\ subscribed' = TRUE
    /\ subscriptions' = subscriptions + 1
    /\ init' = [pc |-> "getSession", uid |-> Null]
    /\ UNCHANGED <<NotInI, initialSession, db, user, profile, session, loading,
                   initialized, unmounted, fetches, stale, call, returned>>

cleanup_I ==
    /\ variant = "I" /\ Started /\ ~unmounted
    /\ unmounted' = TRUE
    /\ mounted' = FALSE
    /\ subscribed' = FALSE
    /\ subscriptions' = subscriptions - 1
    /\ stale' = Superseded
    /\ fetches' = EmptyBag
    /\ init' = DoneInit
    /\ UNCHANGED <<NotInI, initialSession, db, user, profile, session, loading,
                   initialized, call, returned>>

getSession_I(o, s) ==
    /\ variant = "I"
    /\ init.pc = "getSession"
    /\ IF o = "session"
         THEN /\ session' = s /\ user' = s
              /\ init' = [pc |-> "fetchProfile", uid |-> s]
              /\ UNCHANGED <<profile, loading, initialized>>
         ELSE /\ user' = Null /\ profile' = NoProfile /\ session' = Null
              /\ loading' = FALSE /\ initialized' = TRUE
              /\ init' = DoneInit
    /\ UNCHANGED <<NotInI, initialSession, db, mounted, unmounted, subscribed, subscriptions, fetches,
                   stale, call, returned>>

(* fetchUserProfile, called by initializeAuth, from the answer of its      *)
(* request to its end.                                                     *)
initProfile_I(o) ==
    /\ variant = "I"
    /\ init.pc = "fetchProfile"
    /\ profile' = fetchUserProfile_I(init.uid, o)
    /\ loading' = FALSE /\ initialized' = TRUE
    /\ init' = DoneInit
    /\ UNCHANGED <<NotInI, initialSession, db, user, session, mounted, unmounted,
                   subscribed, subscriptions, fetches, stale, call, returned>>

(* A continuation whose `mounted` is false returns at once. *)
staleAnswer_I(p, o) ==
    /\ variant = "I"
    /\ BagIn(p, stale)
    /\ stale' = stale (-) SetToBag({p})
    /\ UNCHANGED <<NotInI, initialSession, db, user, profile, session, loading,
                   initialized, mounted, unmounted, subscribed, subscriptions, init, fetches, call,
                   returned>>

(* handleAuthStateChange up to its first await. *)
Handle_I(e, s) ==
    IF ~(subscribed /\ mounted) \/ (~initializedSeen /\ e # "INITIAL_SESSION")
      THEN UNCHANGED <<session, user, profile, loading, fetches>>
      ELSE /\ session' = s
           /\ user' = s
           /\ IF s # Null
                THEN /\ loading' = TRUE
                     /\ fetches' = AddFetch(s)
                     /\ UNCHANGED profile
                ELSE /\ profile' = NoProfile
                     /\ loading' = FALSE
                     /\ UNCHANGED fetches

(* The subscription is sent INITIAL_SESSION once; the other events report  *)
(* session changes made elsewhere.                                         *)
handleAuthStateChange_I(e, s) ==
    /\ variant = "I" /\ Started
    /\ subscribed
    /\ Carries(e, s)
    /\ (e = "INITIAL_SESSION" => ~initialSession)
    /\ (s # Null => InFlight < MaxInFlight)
    /\ initialSession' = (initialSession \/ e = "INITIAL_SESSION")
    /\ Handle_I(e, s)
    /\ UNCHANGED <<NotInI, db, initialized, mounted, unmounted, subscribed, subscriptions, init, stale,
                   call, returned>>

(* fetchUserProfile, called by handleAuthStateChange, from the answer of   *)
(* its request to its end.                                                 *)
handlerProfile_I(f, o) ==
    /\ variant = "I"
    /\ BagIn(f, fetches)
    /\ fetches' = DropFetch(f)
    /\ profile' = fetchUserProfile_I(f.uid, o)
    /\ loading' = FALSE /\ initialized' = TRUE
    /\ UNCHANGED <<NotInI, initialSession, db, user, session, mounted, unmounted,
                   subscribed, subscriptions, init, stale, call, returned>>

signIn_I(u) ==
    /\ variant = "I" /\ CanCall
    /\ loading' = TRUE
    /\ call' = Call("signIn", "signInWithPassword", u, Null, NoCache)
    /\ returned' = Returned("none", "none")
    /\ UNCHANGED <<NotInI, initialSession, db, user, profile, session, initialized,
                   mounted, unmounted, subscribed, subscriptions, init, fetches, stale>>

(* signIn from the answer of signInWithPassword to its return (with the    *)
(* answer "ok" the subscription has been sent SIGNED_IN before).           *)
signInWithPassword_I(o) ==
    /\ variant = "I"
    /\ call.op = "signIn" /\ call.pc = "signInWithPassword"
    /\ call' = IdleCall
    /\ IF o = "ok"
         THEN /\ Handle_I("SIGNED_IN", call.uid)
              /\ returned' = SignedIn(call.uid)
         ELSE /\ loading' = FALSE
              /\ returned' = Returned("signIn", "error")
              /\ UNCHANGED <<session, user, profile, fetches>>
    /\ UNCHANGED <<NotInI, initialSession, db, initialized, mounted, unmounted,
                   subscribed, subscriptions, init, stale>>

signUp_I(u, r) ==
    /\ variant = "I" /\ CanCall
    /\ loading' = TRUE
    /\ call' = Call("signUp", "signUp", u, r, NoCache)
    /\ returned' = Returned("none", "none")
    /\ UNCHANGED <<NotInI, initialSession, db, user, profile, session, initialized,
                   mounted, unmounted, subscribed, subscriptions, init, fetches, stale>>

authSignUp_I(o) ==
    /\ variant = "I"
    /\ call.op = "signUp" /\ call.pc = "signUp"
    /\ CASE o = "ok" ->
              /\ call' = [call EXCEPT !.pc = "insert"]
              /\ UNCHANGED <<returned, loading>>
         [] o = "no_user" ->
              /\ call' = IdleCall
              /\ loading' = FALSE
              /\ returned' = Returned("signUp", "ok")
         [] OTHER ->
              /\ call' = IdleCall
              /\ loading' = FALSE
              /\ returned' = Returned("signUp", "error")
    /\ UNCHANGED <<NotInI, initialSession, db, user, profile, session, initialized,
                   mounted, unmounted, subscribed, subscriptions, init, fetches, stale>>

insertProfile_I(o) ==
    /\ variant = "I"
    /\ call.op = "signUp" /\ call.pc = "insert"
    /\ call' = IdleCall
    /\ loading' = FALSE
    /\ IF o = "ok"
         THEN /\ db' = [db EXCEPT ![call.uid] = call.role]
              /\ returned' = Returned("signUp", "ok")
         ELSE /\ returned' = Returned("signUp", InsertError(o))
              /\ UNCHANGED db
    /\ UNCHANGED <<NotInI, initialSession, user, profile, session, initialized, mounted,
                   unmounted, subscribed, subscriptions, init, fetches, stale>>

signOut_I ==
    /\ variant = "I" /\ CanCall
    /\ loading' = TRUE
    /\ call' = Call("signOut", "signOut", Null, Null, NoCache)
    /\ returned' = Returned("none", "none")
    /\ UNCHANGED <<NotInI, initialSession, db, user, profile, session, initialized,
                   mounted, unmounted, subscribed, subscriptions, init, fetches, stale>>

(* signOut from the answer of auth.signOut to its end (with the answer     *)
(* "ok" the subscription has been sent SIGNED_OUT before, which            *)
(* handleAuthStateChange does not process).                                *)
authSignOut_I(o) ==
    /\ variant = "I"
    /\ call.op = "signOut" /\ call.pc = "signOut"
    /\ call' = IdleCall
    /\ loading' = FALSE
    /\ IF o \in {"ok", "error"}
         THEN /\ user' = Null /\ profile' = NoProfile /\ session' = Null
              /\ returned' = Returned("signOut", "returned")
         ELSE /\ returned' = Returned("signOut", "caught")
              /\ UNCHANGED <<user, profile, session>>
    /\ UNCHANGED <<NotInI, initialSession, db, initialized, mounted, unmounted,
                   subscribed, subscriptions, init, fetches, stale>>

----------------------------------------------------------------------------
(* The route gate (part_002): what ProtectedRoute renders. *)

(* A gate whose two role checks have their roles exchanged. *)
ProtectedRoute_exchanged(requireAdmin, requireStudent) ==
    CASE error # Null                              -> "error"
      [] loading                                   -> "loading"
      [] user = Null                               -> "/login"
      [] profile = NoProfile                       -> "profile_not_found"
      [] requireAdmin /\ profile.role # "student"   -> "/dashboard"
      [] requireStudent /\ profile.role # "admin"   -> "/admin"
      [] OTHER                                     -> "children"

(* A gate that tests loading before error. *)
ProtectedRoute_loadingFirst(requireAdmin, requireStudent) ==
    CASE loading                                   -> "loading"
      [] error # Null                              -> "error"
      [] user = Null                               -> "/login"
      [] profile = NoProfile                       -> "profile_not_found"
      [] requireAdmin /\ profile.role # "admin"     -> "/dashboard"
      [] requireStudent /\ profile.role # "student" -> "/admin"
      [] OTHER                                     -> "children"

(* A gate without the profile-missing row. *)
ProtectedRoute_noProfileRow(requireAdmin, requireStudent) ==
    CASE error # Null                              -> "error"
      [] loading                                   -> "loading"
      [] user = Null                               -> "/login"
      [] requireAdmin /\ profile.role # "admin"     -> "/dashboard"
      [] requireStudent /\ profile.role # "student" -> "/admin"
      [] OTHER                                     -> "children"

ProtectedRoute(requireAdmin, requireStudent) ==
    CASE error # Null                              -> "error"
      [] loading                                   -> "loading"
      [] user = Null                               -> "/login"
      [] profile = NoProfile                       -> "profile_not_found"
      [] requireAdmin /\ profile.role # "admin"     -> "/dashboard"
      [] requireStudent /\ profile.role # "student" -> "/admin"
      [] OTHER                                     -> "children"

(* The two gates of part_001, which do not read `error`: the first shows   *)
(* a small "Setting up your profile..." spinner while profile is null, the *)
(* second a "Profile Not Found" view.                                      *)
ProtectedRoute_settingUp(requireAdmin, requireStudent) ==
    CASE loading                                   -> "loading"
      [] user = Null                               -> "/login"
      [] profile = NoProfile                       -> "setting_up_profile"
      [] requireAdmin /\ profile.role # "admin"     -> "/dashboard"
      [] requireStudent /\ profile.role # "student" -> "/admin"
      [] OTHER                                     -> "children"

ProtectedRoute_profileNotFound(requireAdmin, requireStudent) ==
    CASE loading                                   -> "loading"
      [] user = Null                               -> "/login"
      [] profile = NoProfile                       -> "profile_not_found"
      [] requireAdmin /\ profile.role # "admin"     -> "/dashboard"
      [] requireStudent /\ profile.role # "student" -> "/admin"
      [] OTHER                                     -> "children"

----------------------------------------------------------------------------
(* The specifications *)

InitDbs == { [u \in Users |-> IF u = "A" THEN "admin" ELSE "none"] }

InitCommon ==
    /\ env \in {"ok", "missing", "invalid"}
    /\ db \in InitDbs
    /\ user = Null
    /\ profile = NoProfile
    /\ session = Null
    /\ loading = TRUE
    /\ error = Null
    /\ retryCount = 0
    /\ initialized = FALSE
    /\ profileCache = NoCache
    /\ mounted = FALSE
    /\ unmounted = FALSE
    /\ subscribed = FALSE
    /\ subscriptions = 0
    /\ timeoutId = "none"
    /\ loadingSeen = TRUE
    /\ init = IdleInit
    /\ fetches = EmptyBag
    /\ stale = EmptyBag
    /\ call = IdleCall
    /\ initialSession = FALSE
    /\ returned = Returned("none", "none")

InitE == variant = "E" /\ InitCommon

NextE ==
    \/ useEffect_E
    \/ retry_E
    \/ cleanup_E
    \/ timeout_E
    \/ \E o \in GetSessionOutcomes, s \in Users :
          /\ (o # "session" => s = "A")
          /\ getSession_E(o, s)
    \/ /\ init.pc = "fetchProfile"
       /\ \E o \in SelectOutcomes(init.uid) : initProfile_E(o)
    \/ \E p \in BagToSet(stale) :
          \E o \in StaleOutcomes(p) : staleAnswer_E(p, o)
    \/ \E s \in Users \cup {Null} : handleAuthStateChange_E(s)
    \/ \E f \in BagToSet(fetches) : \E o \in SelectOutcomes(f.uid) : handlerProfile_E(f, o)
    \/ \E u \in Users : signIn_E(u)
    \/ \E o \in SignInOutcomes : signInWithPassword_E(o)
    \/ \E u \in Users, r \in Roles : signUp_E(u, r)
    \/ \E o \in SignUpOutcomes : authSignUp_E(o)
    \/ /\ call.pc = "insert"
       /\ \E o \in InsertOutcomes(call.uid) : insertProfile_E(o)
    \/ signOut_E
    \/ \E o \in SignOutOutcomes : authSignOut_E(o)

SpecE == InitE /\ [][NextE]_vars

(* The event loop runs the effect after the first render and a timer when  *)
(* it is due.  Nothing makes the backend answer a request.                 *)
FairSpecE == SpecE /\ WF_vars(useEffect_E) /\ WF_vars(timeout_E)

InitK == variant = "K" /\ env = "ok" /\ InitCommon

NextK ==
    \/ useEffect_K
    \/ cleanup_K
    \/ \E o \in GetSessionOutcomes, s \in Users :
          /\ (o # "session" => s = "A")
          /\ getSession_K(o, s)
    \/ /\ init.pc = "fetchProfile"
       /\ \E o \in SelectOutcomes(init.uid) : initProfile_K(o)
    \/ \E p \in BagToSet(stale) :
          \E o \in StaleOutcomes(p) : staleAnswer_K(p, o)
    \/ \E s \in Users \cup {Null} : handleAuthStateChange_K(s)
    \/ \E f \in BagToSet(fetches) : \E o \in SelectOutcomes(f.uid) : handlerProfile_K(f, o)
    \/ \E u \in Users : signIn_K(u)
    \/ \E o \in SignInOutcomes : signInWithPassword_K(o)
    \/ /\ call.pc = "fetchProfile"
       /\ \E o \in SelectOutcomes(call.uid) : signInProfile_K(o)
    \/ \E u \in Users, r \in Roles : signUp_K(u, r)
    \/ \E o \in SignUpOutcomes : authSignUp_K(o)
    \/ /\ call.pc = "insert"
       /\ \E o \in InsertOutcomes(call.uid) : insertProfile_K(o)
    \/ signOut_K
    \/ \E o \in SignOutOutcomes : authSignOut_K(o)

SpecK == InitK /\ [][NextK]_vars

InitI == variant = "I" /\ env = "ok" /\ InitCommon

NextI ==
    \/ useEffect_I
    \/ cleanup_I
    \/ \E o \in GetSessionOutcomes, s \in Users :
          /\ (o # "session" => s = "A")
          /\ getSession_I(o, s)
    \/ /\ init.pc = "fetchProfile"
       /\ \E o \in SelectOutcomes(init.uid) : initProfile_I(o)
    \/ \E p \in BagToSet(stale) :
          \E o \in StaleOutcomes(p) : staleAnswer_I(p, o)
    \/ \E e \in Events, s \in Users \cup {Null} : handleAuthStateChange_I(e, s)
    \/ \E f \in BagToSet(fetches) : \E o \in SelectOutcomes(f.uid) : handlerProfile_I(f, o)
    \/ \E u \in Users : signIn_I(u)
    \/ \E o \in SignInOutcomes : signInWithPassword_I(o)
    \/ \E u \in Users, r \in Roles : signUp_I(u, r)
    \/ \E o \in SignUpOutcomes : authSignUp_I(o)
    \/ /\ call.pc = "insert"
       /\ \E o \in InsertOutcomes(call.uid) : insertProfile_I(o)
    \/ signOut_I
    \/ \E o \in SignOutOutcomes : authSignOut_I(o)

SpecI == InitI /\ [][NextI]_vars

(* The answer of a request the store awaits. *)
Answer_I ==
    \/ \E o \in GetSessionOutcomes, s \in Users :
          /\ (o # "session" => s = "A")
          /\ getSession_I(o, s)
    \/ /\ init.pc = "fetchProfile"
       /\ \E o \in SelectOutcomes(init.uid) : initProfile_I(o)
    \/ \E p \in BagToSet(stale) :
          \E o \in StaleOutcomes(p) : staleAnswer_I(p, o)
    \/ \E f \in BagToSet(fetches) : \E o \in SelectOutcomes(f.uid) : handlerProfile_I(f, o)
    \/ \E o \in SignInOutcomes : signInWithPassword_I(o)
    \/ \E o \in SignUpOutcomes : authSignUp_I(o)
    \/ /\ call.pc = "insert"
       /\ \E o \in InsertOutcomes(call.uid) : insertProfile_I(o)
    \/ \E o \in SignOutOutcomes : authSignOut_I(o)

(* The effect runs after the first render, and the backend answers (or     *)
(* fails) the requests it is sent.                                         *)
FairSpecI == SpecI /\ WF_vars(useEffect_I) /\ WF_vars(Answer_I)

(* Any of the three variants. *)
Init == InitE \/ InitK \/ InitI
Next == NextE \/ NextK \/ NextI
Spec == Init /\ [][Next]_vars

(* The profile requests of the Bootstrapper and of the notification       *)
(* handlers are all answered and no ActionAPI call is in flight.           *)
Quiet == init.pc = "done" /\ fetches = EmptyBag /\ stale = EmptyBag /\ call.pc = "idle"

(* Notifications only: the Bootstrapper runs to its end, and after it the  *)
(* session changes only by what the subscription is notified of.           *)
NextNotify ==
    \/ useEffect_E
    \/ useEffect_K
    \/ useEffect_I
    \/ timeout_E
    \/ \E o \in GetSessionOutcomes, s \in Users :
          /\ (o # "session" => s = "A")
          /\ (getSession_E(o, s) \/ getSession_K(o, s) \/ getSession_I(o, s))
    \/ /\ init.pc = "fetchProfile"
       /\ \E o \in SelectOutcomes(init.uid) :
             initProfile_E(o) \/ initProfile_K(o) \/ initProfile_I(o)
    \/ /\ init.pc = "done"
       /\ \E s \in Users \cup {Null} :
             \/ handleAuthStateChange_E(s)
             \/ handleAuthStateChange_K(s)
             \/ \E e \in Events : handleAuthStateChange_I(e, s)
    \/ \E f \in BagToSet(fetches) : \E o \in SelectOutcomes(f.uid) :
          handlerProfile_E(f, o) \/ handlerProfile_K(f, o) \/ handlerProfile_I(f, o)

SpecNotify == Init /\ [][NextNotify]_vars

(* Sign-in in variants E and K: the Bootstrapper runs to its end, and the  *)
(* UI then makes signUp and signIn calls, each when the one before and the *)
(* profile requests it caused are finished.  No session change is made     *)
(* elsewhere.                                                              *)
NextSignIn ==
    \/ useEffect_E
    \/ useEffect_K
    \/ timeout_E
    \/ \E o \in GetSessionOutcomes, s \in Users :
          /\ (o # "session" => s = "A")
          /\ (getSession_E(o, s) \/ getSession_K(o, s))
    \/ /\ init.pc = "fetchProfile"
       /\ \E o \in SelectOutcomes(init.uid) : initProfile_E(o) \/ initProfile_K(o)
    \/ /\ Quiet
       /\ \E u \in Users : signIn_E(u) \/ signIn_K(u)
    \/ \E o \in SignInOutcomes : signInWithPassword_E(o) \/ signInWithPassword_K(o)
    \/ /\ call.pc = "fetchProfile"
       /\ \E o \in SelectOutcomes(call.uid) : signInProfile_K(o)
    \/ \E f \in BagToSet(fetches) : \E o \in SelectOutcomes(f.uid) :
          handlerProfile_E(f, o) \/ handlerProfile_K(f, o)
    \/ /\ Quiet
       /\ \E u \in Users, r \in Roles : signUp_E(u, r) \/ signUp_K(u, r)
    \/ \E o \in SignUpOutcomes : authSignUp_E(o) \/ authSignUp_K(o)
    \/ /\ call.pc = "insert"
       /\ \E o \in InsertOutcomes(call.uid) : insertProfile_E(o) \/ insertProfile_K(o)

SpecSignIn == (InitE \/ InitK) /\ [][NextSignIn]_vars

(* The gate alone: useAuth() hands it any SessionState whatever. *)
Errors ==
    {Null, ErrConfigMissing, ErrConfigInvalid, ErrTimeout, ErrNetworkAuth, ErrAuth,
     ErrAuthUnexpected, ErrNetworkDb, ErrNetworkProfile}
Profiles == {NoProfile} \cup {Row(u, r) : u \in Users, r \in Roles}

useAuth(u, p, l, e) ==
    /\ user' = u /\ session' = u
    /\ profile' = p
    /\ loading' = l
    /\ error' = e
    /\ UNCHANGED <<variant, initialSession, env, db, retryCount, initialized, profileCache,
                   mounted, unmounted, subscribed, subscriptions, timeoutId, loadingSeen, init, fetches,
                   stale, call, returned>>

NextGate ==
    \E u \in Users \cup {Null}, p \in Profiles, l \in BOOLEAN, e \in Errors :
        useAuth(u, p, l, e)

SpecGate == InitE /\ [][NextGate]_vars

----------------------------------------------------------------------------
(* C1: in variant E, for the Bootstrapper run of application start (no      *)
(* retry has replaced it), loading eventually becomes false, whatever the  *)
(* session fetch does, unless the store is torn down.                      *)
C1_LoadingEventuallyFalse == <>(loading = FALSE \/ unmounted \/ retryCount > 0)

(* C2: in variant E, along every behaviour from application start loading  *)
(* changes from true to false exactly once: it becomes false (unless the   *)
(* store is torn down first) and is never set back to true.                *)
C2_LoadingFalseExactlyOnce ==
    /\ <>(loading = FALSE \/ unmounted)
    /\ [][loading = FALSE => loading' = FALSE]_vars

(* C3: in variant E, when the 10 s wait elapses before getSession has      *)
(* answered, error becomes the timeout error and loading false, and the    *)
(* answer of getSession that arrives afterwards changes none of user,      *)
(* session and profile.                                                    *)
C3_LateSessionDiscarded ==
    /\ [][(timeoutId = "armed" /\ timeoutId' = "fired")
            => (error' = ErrTimeout /\ loading' = FALSE)]_vars
    /\ [][(timeoutId = "fired" /\ \E o \in GetSessionOutcomes, s \in Users : getSession_E(o, s))
            => UNCHANGED <<user, session, profile>>]_vars

(* C4: in variant E, in every reachable state error != null implies        *)
(* loading = false.                                                        *)
C4_ErrorImpliesNotLoading == error # Null => loading = FALSE

IsConfigurationError(e) == e \in {ErrConfigMissing, ErrConfigInvalid}

(* C8: every retry() runs the configuration check again before getSession  *)
(* is called: with the configuration still missing or invalid the retry    *)
(* calls no getSession and ends with the configuration error and loading   *)
(* false.                                                                  *)
C8_RetryRevalidates ==
    [][(retry_E /\ env # "ok")
         => /\ IsConfigurationError(error')
            /\ loading' = FALSE
            /\ init'.pc # "getSession"
            /\ timeoutId' # "armed"]_vars
C8_Witness == env # "ok" /\ retryCount > 0 /\ IsConfigurationError(error) /\ ~loading

ConfigErrorState == IsConfigurationError(error) /\ loading = FALSE /\ user = Null

(* A notification is delivered, or the profile request that the handler   *)
(* of an earlier notification awaits is answered.                          *)
NotificationStep_E ==
    \/ \E s \in Users \cup {Null} : handleAuthStateChange_E(s)
    \/ \E f \in BagToSet(fetches) : \E o \in SelectOutcomes(f.uid) : handlerProfile_E(f, o)
    \/ \E p \in BagToSet(stale) : \E o \in StaleOutcomes(p) : staleAnswer_E(p, o)

(* C9 as stated: with a connection parameter missing or invalid at         *)
(* application start the Bootstrapper ends in the configuration-error      *)
(* state, which then lasts until retry() or a notification.                *)
C9_ConfigErrorUntilRetryOrNotification ==
    /\ [][(useEffect_E /\ env # "ok") => ConfigErrorState']_vars
    /\ [][(env # "ok" /\ ConfigErrorState /\ ~retry_E /\ ~NotificationStep_E)
            => ConfigErrorState']_vars

(* C9 amended: ... which then lasts until retry(), signOut() (its call or  *)
(* its completion) or a notification.                                      *)
C9_ConfigErrorUntilRetrySignOutOrNotification ==
    /\ [][(useEffect_E /\ env # "ok") => ConfigErrorState']_vars
    /\ [][(env # "ok" /\ ConfigErrorState /\ ~retry_E /\ ~NotificationStep_E
             /\ ~signOut_E /\ ~(\E o \in SignOutOutcomes : authSignOut_E(o)))
            => ConfigErrorState']_vars
C9_Witness == env # "ok" /\ ConfigErrorState /\ returned = Returned("signIn", "error")

(* C5: when signOut returns, user, profile and session are null and the    *)
(* profile cache is empty, whatever auth.signOut answered (success, a      *)
(* returned error, or a thrown exception); all three variants.             *)
C5_SignOutClears ==
    [][(call.op = "signOut" /\ call'.pc = "idle")
         => /\ user' = Null /\ profile' = NoProfile /\ session' = Null
            /\ profileCache' = NoCache]_vars

(* C6: when the subscription has been notified of one user and then of     *)
(* another while the first one's profile request was in flight, then once  *)
(* the requests are all answered profile is the record of the user of the  *)
(* latest notification or null, never the record of the superseded user.   *)
(* (Under SpecNotify the user of the store, after the Bootstrapper, is the *)
(* user of the latest notification.)                                       *)
C6_ProfileOfLatestNotification ==
    (Quiet /\ user # Null) => profile.id \in {user, Null}

(* The Bootstrapper's profile request is answered. *)
BootstrapProfileStep ==
    /\ init.pc = "fetchProfile"
    /\ \E o \in SelectOutcomes(init.uid) :
          initProfile_E(o) \/ initProfile_K(o) \/ initProfile_I(o)

(* C7: when the Bootstrapper has restored a session of user U, what it     *)
(* writes to profile is the row the profiles table holds for U, or null;   *)
(* never a record of another id nor what profile or the cache held before; *)
(* and it writes nothing to profile before the lookup has answered.        *)
C7_BootstrapProfileIsLookup ==
    /\ [][BootstrapProfileStep
            => \/ profile' = NoProfile
               \/ /\ db[init.uid] # "none"
                  /\ profile' = Row(init.uid, db[init.uid])]_vars
    /\ [][(init.pc = "getSession" /\ init'.pc = "fetchProfile") => profile' = profile]_vars
C7_Witness ==
    /\ variant = "K" /\ init.pc = "done" /\ Quiet
    /\ returned = Returned("none", "none")
    /\ session = "A" /\ user = "A"
    /\ profile = Row("A", "admin")
    /\ profileCache["A"] = Row("A", "admin")
    /\ initialized /\ ~loading

C11_ProfileOfSignedInUser ==
    \A u \in Users :
        (variant = "K" /\ returned = SignedIn(u) /\ Quiet /\ user = u /\ session = u)
            => profile.id \in {u, Null}

(* A profile lookup made for a user reports that there is no row. *)
LookupNotFound ==
    \/ /\ init.pc = "fetchProfile"
       /\ initProfile_E("not_found") \/ initProfile_K("not_found") \/ initProfile_I("not_found")
    \/ \E f \in BagToSet(fetches) :
          \/ handlerProfile_E(f, "not_found")
          \/ handlerProfile_K(f, "not_found")
          \/ handlerProfile_I(f, "not_found")
    \/ /\ call.pc = "fetchProfile"
       /\ signInProfile_K("not_found")

(* What the three gates render is their profile-missing view. *)
RendersProfileMissing(requireAdmin, requireStudent) ==
    /\ ProtectedRoute(requireAdmin, requireStudent) = "profile_not_found"
    /\ ProtectedRoute_settingUp(requireAdmin, requireStudent) = "setting_up_profile"
    /\ ProtectedRoute_profileNotFound(requireAdmin, requireStudent) = "profile_not_found"

(* C12: when a profile lookup reports not-found, the user stays as it was, *)
(* profile is null and no error is set by it; and with a user signed in    *)
(* (and the store neither loading nor in error) every gate renders its     *)
(* profile-missing view, whatever requireAdmin and requireStudent are:     *)
(* neither a redirect nor the gated content.                               *)
C12_ProfileMissing ==
    [][LookupNotFound
         => /\ user' = user
            /\ profile' = NoProfile
            /\ error' = error
            /\ (user' # Null /\ ~loading' /\ error' = Null)
                  => \A ra \in BOOLEAN, rs \in BOOLEAN : RendersProfileMissing(ra, rs)']_vars
C12_Witness ==
    /\ returned = SignedIn("B") /\ Quiet /\ db["B"] = "none"
    /\ user = "B" /\ profile = NoProfile /\ error = Null /\ ~loading
    /\ \A ra \in BOOLEAN, rs \in BOOLEAN : RendersProfileMissing(ra, rs)

(* C13: whenever signUp returns error = null, auth.signUp has created the  *)
(* user and the insert of the profile row under the new user's id, with    *)
(* the role given, has succeeded.                                          *)
C13_SignUpOkMeansProfileCreated ==
    [][(call.op = "signUp" /\ returned' = Returned("signUp", "ok"))
         => /\ call.pc = "insert"
            /\ db'[call.uid] = call.role]_vars

(* The profile insert of signUp fails: it answers with an error or throws. *)
InsertFails ==
    /\ call.pc = "insert"
    /\ \E o \in {"error", "throw_network", "throw_other"} :
          insertProfile_E(o) \/ insertProfile_K(o) \/ insertProfile_I(o)

(* C14: when auth.signUp has succeeded and the profile insert that follows *)
(* fails, signUp returns a non-null error (the insert's), no row is        *)
(* created, and (variant K) nothing is added to the profile cache.         *)
C14_InsertFailureReported ==
    [][InsertFails
         => /\ returned'.op = "signUp"
            /\ returned'.value \in {"profileError", "error"}
            /\ db' = db
            /\ profileCache' = profileCache]_vars
C14_Witness ==
    /\ variant = "K"
    /\ returned = Returned("signUp", "profileError")
    /\ call.pc = "idle"
    /\ profileCache = NoCache

(* signInWithPassword answers a pending signIn with outcome o. *)
SignInAnswered(o) ==
    signInWithPassword_E(o) \/ signInWithPassword_K(o) \/ signInWithPassword_I(o)

(* C15: signIn never throws.  Whatever signInWithPassword answers (wrong    *)
(* credentials, a network failure, success without user or session, an     *)
(* exception), and when the configuration is invalid, signIn returns a     *)
(* result; its error is null when a user and a session were obtained (in   *)
(* variant K after its own profile request, whatever that answers) and     *)
(* non-null otherwise.                                                     *)
C15_SignInReturnsResult ==
    /\ [][\A o \in SignInOutcomes : SignInAnswered(o)
            => IF o = "ok"
                 THEN \/ returned' = SignedIn(call.uid)
                      \/ variant = "K" /\ call'.pc = "fetchProfile" /\ call'.uid = call.uid
                 ELSE returned' = Returned("signIn", "error")]_vars
    /\ [][(call.op = "signIn" /\ call.pc = "fetchProfile" /\ call' # call)
            => returned' = SignedIn(call.uid)]_vars
    /\ [][\A u \in Users : (signIn_E(u) /\ ~checkEnvironmentVariables)
            => returned' = Returned("signIn", "error")]_vars
    /\ [][returned'.op = "signIn" => returned'.value \in {"ok", "error"}]_vars
C15_Witness ==
    /\ variant = "E" /\ env = "ok"
    /\ returned = Returned("signIn", "error")
    /\ call.pc = "idle"
    /\ error = ErrNetworkAuth
    /\ user = Null

CallAnswered_E(o) ==
    \/ signInWithPassword_E(o)
    \/ authSignUp_E(o)
    \/ call.pc = "insert" /\ insertProfile_E(o)

StaleContinuation ==
    \E p \in BagToSet(stale) : \E o \in StaleOutcomes(p) :
        staleAnswer_E(p, o) \/ staleAnswer_K(p, o) \/ staleAnswer_I(p, o)

(* C18: after teardown no continuation of the Bootstrapper, of a           *)
(* notification handler or of a profile fetch that was pending at teardown *)
(* writes user, profile, session, loading or error.                        *)
C18_NoWriteAfterTeardown ==
    [][(unmounted /\ StaleContinuation)
         => UNCHANGED <<user, profile, session, loading, error>>]_vars

(* C19: once retry() has started a new attempt, the answer of a getSession *)
(* or profile request that an earlier attempt awaited writes none of user, *)
(* session, profile, loading and error.                                    *)
C19_RetrySupersedes ==
    [][(/\ retryCount > 0 /\ ~unmounted
        /\ \E p \in BagToSet(stale) : \E o \in StaleOutcomes(p) : staleAnswer_E(p, o))
         => UNCHANGED <<user, session, profile, loading, error>>]_vars

(* C20: for every SessionState and every requireAdmin, requireStudent the  *)
(* error-aware gate returns the first row that applies: the error view if  *)
(* error is not null; else the loading placeholder if loading; else a      *)
(* redirect to /login if user is null; else the profile-missing view if    *)
(* profile is null; else a redirect to /dashboard if requireAdmin and the  *)
(* role is not admin; else a redirect to /admin if requireStudent and the  *)
(* role is not student; else the gated content.  So the gated content is   *)
(* never rendered while loading is true or error is not null.              *)
C20_GateTable ==
    \A ra \in BOOLEAN, rs \in BOOLEAN :
        /\ ProtectedRoute(ra, rs) =
              IF error # Null THEN "error"
              ELSE IF loading THEN "loading"
              ELSE IF user = Null THEN "/login"
              ELSE IF profile = NoProfile THEN "profile_not_found"
              ELSE IF ra /\ profile.role # "admin" THEN "/dashboard"
              ELSE IF rs /\ profile.role # "student" THEN "/admin"
              ELSE "children"
        /\ (loading \/ error # Null) => ProtectedRoute(ra, rs) # "children"
C20_Witness ==
    /\ error = ErrTimeout /\ loading
    /\ user = "A" /\ profile = Row("A", "admin")
    /\ ProtectedRoute(TRUE, FALSE) = "error"

(* C21: in variant K, once the cache holds the record of user s, a         *)
(* resolution for s started by a notification handler or by the            *)
(* Bootstrapper takes the cached record and sends no request to the        *)
(* backend.                                                                *)
C21_CacheHitNoLookup ==
    /\ [][\A s \in Users :
            (handleAuthStateChange_K(s) /\ mounted /\ CacheHit(profileCache, s))
               => (fetches' = fetches /\ profile' = profileCache[s])]_vars
    /\ [][\A s \in Users :
            (getSession_K("session", s) /\ CacheHit(profileCache, s))
               => (init'.pc = "done" /\ profile' = profileCache[s])]_vars

(* A profile request for user u is answered with u's row (variant K). *)
LookupFound_K(u) ==
    \/ init.pc = "fetchProfile" /\ init.uid = u /\ initProfile_K("found")
    \/ \E f \in BagToSet(fetches) : f.uid = u /\ handlerProfile_K(f, "found")
    \/ \E p \in BagToSet(stale) : p.kind = "profile" /\ p.uid = u /\ staleAnswer_K(p, "found")
    \/ call.pc = "fetchProfile" /\ call.uid = u /\ signInProfile_K("found")

(* C22: in variant K the cache gains an entry for id u only when a lookup  *)
(* for u has found the row or a signUp of u has inserted it, and the entry *)
(* has id u; a lookup that finds nothing or fails adds nothing; an entry   *)
(* is removed only by signOut, which removes them all.                     *)
C22_CacheWrites ==
    [][\A u \in Users :
          profileCache'[u] # profileCache[u]
             => \/ /\ profileCache[u] = NoProfile
                   /\ profileCache'[u] = Row(u, db'[u])
                   /\ \A v \in Users \ {u} : profileCache'[v] = profileCache[v]
                   /\ LookupFound_K(u) \/ (call.uid = u /\ insertProfile_K("ok"))
                \/ /\ profileCache' = NoCache
                   /\ call.op = "signOut"
                   /\ authSignOut_K("ok") \/ authSignOut_K("error")]_vars
C22_Witness ==
    /\ variant = "K"
    /\ returned = Returned("signUp", "ok")
    /\ profileCache["B"] = Row("B", "student")
    /\ profileCache["A"] = Row("A", "admin")

(* C23: in variant K, when profile requests are in flight at the same time *)
(* and succeed, each answer adds its row under its own id and keeps every  *)
(* entry the cache held: after they are all answered the cache holds an    *)
(* entry for each id fetched, and no insertion is lost.                    *)
C23_NoLostInsertion ==
    [][\A u \in Users :
          LookupFound_K(u)
             => /\ profileCache'[u] = Row(u, db[u])
                /\ \A v \in Users \ {u} : profileCache'[v] = profileCache[v]]_vars
C23_Witness ==
    /\ variant = "K"
    /\ returned = Returned("signOut", "returned")
    /\ fetches = EmptyBag /\ stale = EmptyBag /\ call.pc = "idle"
    /\ profileCache["A"] = Row("A", "admin")
    /\ profileCache["B"] = Row("B", db["B"])

(* C24: in every reachable state of every variant, a non-null user means a *)
(* non-null session whose user it is: the Bootstrapper, the notification   *)
(* handler, signIn and signOut write user and session together.            *)
C24_UserHasSession ==
    user # Null => (session # Null /\ session = user)
C24_Witness ==
    /\ variant = "K"
    /\ call.op = "signIn" /\ call.pc = "fetchProfile"
    /\ ~subscribed
    /\ user = call.uid /\ session = call.uid

(* C25: in variant E, a notification delivered to a live store sets user   *)
(* and session to its payload and error to null in the step that delivers  *)
(* it, while its profile request is still unanswered; a notification       *)
(* without a user sets profile to null in that step.  Once the start-up    *)
(* run has ended and no call is running, nothing but a notification        *)
(* changes user or session, so they stay those of the last one delivered.  *)
C25_NotificationSetsUserAtOnce ==
    /\ [][\A s \in Users \cup {Null} :
            (handleAuthStateChange_E(s) /\ mounted)
               => /\ user' = s /\ session' = s /\ error' = Null
                  /\ (s = Null => profile' = NoProfile)
                  /\ (s # Null => fetches' = AddFetch(s) /\ profile' = profile)]_vars
    /\ [][(variant = "E" /\ init.pc = "done" /\ call.pc = "idle"
             /\ (user' # user \/ session' # session))
            => \E s \in Users \cup {Null} : handleAuthStateChange_E(s)]_vars
C25_Witness ==
    /\ variant = "E" /\ mounted /\ subscribed
    /\ checkEnvironmentVariables
    /\ init.pc = "done" /\ call.pc = "idle"
    /\ returned = Returned("none", "none")
    /\ user = "B" /\ session = "B" /\ error = Null
    /\ \E f, g \in BagToSet(fetches) : f.uid = "A" /\ g.uid = "B"

(* C26: in variant I, once the Bootstrapper has set initialized to true,   *)
(* every notification delivered to the live store (sign-in, token refresh, *)
(* sign-out) sets user and session to its payload.                         *)
C26_NotificationsAfterInitialized ==
    (variant = "I" /\ initialized /\ mounted /\ subscribed)
       => \A e \in Events \ {"INITIAL_SESSION"}, s \in Users \cup {Null} :
             ENABLED handleAuthStateChange_I(e, s)
                => ENABLED (handleAuthStateChange_I(e, s) /\ user' = s /\ session' = s)

(* C27: in variant I, signIn sets loading to true before the backend call, *)
(* and after every signIn that has returned, with or without an error,     *)
(* loading eventually becomes false again (unless the store is torn down). *)
C27_SignInLoadingEnds ==
    /\ [][\A u \in Users : signIn_I(u) => loading' = TRUE]_vars
    /\ (variant = "I" /\ returned.op = "signIn") ~> (loading = FALSE \/ unmounted)

(* C28: in variant E, a Bootstrapper run started by retry() is protected   *)
(* by the bounded wait too: when the wait elapses while the getSession of  *)
(* that run is unanswered, error becomes the timeout error.                *)
C28_RetryRunTimesOut ==
    [][(timeout_E /\ retryCount > 0 /\ mounted /\ init.pc = "getSession")
          => error' = ErrTimeout]_vars

(* C29: in variant E, the answer of getSession (a session, none, or an     *)
(* error) cancels the wait: the timer is armed only while the getSession   *)
(* of the current run is unanswered, and the timeout error is set only by  *)
(* the timer in such a state, so never while the run's profile request is  *)
(* awaited, however long that takes.                                       *)
C29_AnswerCancelsWait ==
    /\ [][\A o \in GetSessionOutcomes, s \in Users :
            (getSession_E(o, s) /\ timeoutId = "armed") => timeoutId' = "none"]_vars
    /\ [](variant = "E" /\ timeoutId = "armed" => init.pc = "getSession")
    /\ [][(variant = "E" /\ error' = ErrTimeout /\ error # ErrTimeout)
            => (timeout_E /\ init.pc = "getSession")]_vars
C29_Witness ==
    /\ variant = "E" /\ mounted
    /\ init.pc = "fetchProfile"
    /\ timeoutId = "none"
    /\ loading = TRUE /\ error = Null

(* C30: in variant E, when getSession returns an error or throws in the    *)
(* current Bootstrapper run, the run ends with user, profile and session   *)
(* null, loading false and error a network error when the message is one   *)
(* of a network failure, an authentication error otherwise; no profile     *)
(* request is started.                                                     *)
C30_GetSessionFailure ==
    [][\A o \in GetSessionOutcomes \ {"session", "no_session"}, s \in Users :
          getSession_E(o, s)
             => /\ user' = Null /\ profile' = NoProfile /\ session' = Null
                /\ loading' = FALSE
                /\ error' = IF o \in {"err_network", "throw_network"}
                              THEN ErrNetworkAuth
                              ELSE IF o = "err_other" THEN ErrAuth ELSE ErrAuthUnexpected
                /\ init' = DoneInit
                /\ fetches' = fetches]_vars
C30_Witness ==
    /\ variant = "E" /\ mounted
    /\ init.pc = "done"
    /\ error \in {ErrNetworkAuth, ErrAuth, ErrAuthUnexpected}
    /\ call.pc = "idle" /\ returned = Returned("none", "none")
    /\ user = Null /\ profile = NoProfile /\ session = Null
    /\ loading = FALSE /\ fetches = EmptyBag

(* C31: in variant K, once signOut has cleared the state and while no      *)
(* notification or signIn has brought a user since, profile stays null and *)
(* the cache stays empty, also when a profile request sent before the      *)
(* sign-out is answered after it.                                          *)
C31_ClearedStaysCleared ==
    [][(/\ variant = "K"
        /\ returned = Returned("signOut", "returned") /\ returned' = returned
        /\ user = Null /\ user' = Null
        /\ profile = NoProfile /\ profileCache = NoCache)
          => (profile' = NoProfile /\ profileCache' = NoCache)]_vars

(* C32: in variants E and K, when a notification has been processed while  *)
(* the getSession of the Bootstrapper is unanswered (user is the user of   *)
(* that notification, whose profile request is pending), the answer of     *)
(* getSession does not change user and session.                            *)
C32_LateGetSessionKeepsNotification ==
    [][\A o \in GetSessionOutcomes, s \in Users :
          (/\ getSession_E(o, s) \/ getSession_K(o, s)
           /\ mounted
           /\ \E f \in BagToSet(fetches) : f.uid = user)
             => (user' = user /\ session' = session)]_vars

(* C33: in every variant at most one auth-state subscription is active at  *)
(* any moment.  A run of the effect (application start, retry) leaves      *)
(* exactly one, that of the live run; the subscription of the run before   *)
(* is unsubscribed and what that run still awaits reads a cleared flag;    *)
(* after teardown none is active.                                          *)
C33_OneSubscription ==
    /\ subscriptions \in {0, 1}
    /\ (subscriptions = 1) = (mounted /\ subscribed)
    /\ (mounted = subscribed)
    /\ (unmounted => (subscriptions = 0 /\ fetches = EmptyBag /\ init.pc = "done"))
    /\ (Started /\ ~unmounted => subscriptions = 1)
C33_Witness ==
    /\ variant = "E"
    /\ retryCount = 1
    /\ subscriptions = 1 /\ mounted
    /\ init.pc = "getSession"
    /\ stale # EmptyBag

====
